---- MODULE Spec2Model ----
(***************************************************************************)
(* Model of process.py: the kernel-snap revision pipeline.                 *)
(*                                                                         *)
(*   get_current_revision  queries the registry and returns the highest    *)
(*                         revision number found in its answer;            *)
(*   process_revision      downloads one revision into a temporary         *)
(*                         directory, extracts meta/snap.yaml and returns  *)
(*                         (version, architecture);                        *)
(*   main                  submits every revision current..1 to a          *)
(*                         ThreadPoolExecutor, collects the futures as     *)
(*                         they complete and writes the sorted CSV.        *)
(*                                                                         *)
(* The external programs (snap info, snap download, unsquashfs) are the    *)
(* inputs of a run: the registry answer and, per revision, the state of    *)
(* the archive the store serves.  Both are fixed in the initial state.     *)
(***************************************************************************)
EXTENDS Integers, Sequences, FiniteSets, TLC

\* Largest revision number the registry answer of a pipeline run names.
MaxRev == 2
\* Largest value of --workers.
MaxWorkers == 2
\* Largest number of lines of a registry answer.
MaxLines == 2

(***************************************************************************)
(* Registry answer: the text `snap info` prints, as a sequence of lines;   *)
(* a line is a sequence of tokens.  A token is a maximal piece of text of  *)
(* one of four shapes, which is all REVISION_REGEX can tell apart:         *)
(*   date  text matching \d{4}-\d{2}-\d{2}                                 *)
(*   sp    one whitespace character                                        *)
(*   num   "(" digits ")", d the digits                                    *)
(*   txt   any other text                                                  *)
(***************************************************************************)
Tok(t, d) == [t |-> t, d |-> d]

DateTok == Tok("date", <<>>)

SpTok == Tok("sp", <<>>)

TxtTok == Tok("txt", <<>>)

NumTok(d) == Tok("num", d)

\* The line `snap info` prints for a channel: "name: 2024-01-01 (n) 30MB -".
RecordLine(d) == <<TxtTok, DateTok, SpTok, NumTok(d), TxtTok>>

\* Whether REVISION_REGEX matches with the date at token i of the line:
\* the date, one or more whitespace characters, then "(digits)" at token j.
MatchesAt(line, i, j) ==
    /\ i \in 1..Len(line)
    /\ j \in (i + 2)..Len(line)
    /\ line[i].t = "date"
    /\ line[j].t = "num"
    /\ \A k \in (i + 1)..(j - 1) : line[k].t = "sp"

\* re.search(REVISION_REGEX, line): the leftmost match, or none; group1 is
\* the text of the capture group (\d+).
ReSearch(line) ==
    LET starts == {i \in 1..Len(line) : \E j \in 1..Len(line) : MatchesAt(line, i, j)}
    IN  IF starts = {}
        THEN [found |-> FALSE, group1 |-> <<>>]
        ELSE LET i == CHOOSE s \in starts : \A s2 \in starts : s <= s2
                 j == CHOOSE e \in 1..Len(line) : MatchesAt(line, i, e)
             IN  [found |-> TRUE, group1 |-> line[j].d]

\* int(text) of a string of decimal digits.
RECURSIVE PyInt(_)
PyInt(digits) ==
    IF digits = <<>>
    THEN 0
    ELSE 10 * PyInt(SubSeq(digits, 1, Len(digits) - 1)) + digits[Len(digits)]

\* The loop of get_current_revision over result.stdout.split("\n"): the
\* list `revisions`, one int per matching line, in the order of the lines.
RECURSIVE MatchedRevisions(_)
MatchedRevisions(lines) ==
    IF lines = <<>>
    THEN <<>>
    ELSE LET m == ReSearch(Head(lines))
         IN  (IF m.found THEN <<PyInt(m.group1)>> ELSE <<>>)
             \o MatchedRevisions(Tail(lines))

\* A plausible slip: the newest record is assumed to come last.
PyMaxLast(s) == s[Len(s)]

\* max(s) of a non-empty list: the running maximum, left to right.
RECURSIVE PyMaxFrom(_, _)
PyMaxFrom(m, s) ==
    IF s = <<>>
    THEN m
    ELSE PyMaxFrom(IF Head(s) > m THEN Head(s) ELSE m, Tail(s))

PyMax(s) == PyMaxFrom(Head(s), Tail(s))

\* A plausible slip: max(revisions, default=0), a sentinel for no record.
MaxOrRaiseDefault(revs) ==
    IF revs = <<>>
    THEN [ok |-> TRUE, value |-> 0, exc |-> "none"]
    ELSE [ok |-> TRUE, value |-> PyMax(revs), exc |-> "none"]

\* `return max(revisions)`: max() of an empty list raises ValueError.
MaxOrRaise(revs) ==
    IF revs = <<>>
    THEN [ok |-> FALSE, value |-> 0, exc |-> "ValueError"]
    ELSE [ok |-> TRUE, value |-> PyMax(revs), exc |-> "none"]

\* get_current_revision: subprocess.run(..., check=True) raises
\* CalledProcessError on a non-zero exit; otherwise the maximum of the
\* revisions matched in stdout.  (The singleton set binds the list
\* `revisions` to its value, computed once.)
get_current_revision(reg) ==
    IF reg.returncode # 0
    THEN [ok |-> FALSE, value |-> 0, exc |-> "CalledProcessError"]
    ELSE CHOOSE r \in {MaxOrRaise(revs) : revs \in {MatchedRevisions(reg.stdout)}} : TRUE

\* A plausible slip: range(current_revision, 1, -1), which stops at 2.
RevisionRangeShort(current) == [i \in 1..(IF current > 1 THEN current - 1 ELSE 0) |-> current + 1 - i]

\* A plausible slip: range(1, current_revision + 1), oldest first.
RevisionRangeAscending(current) == [i \in 1..(IF current > 0 THEN current ELSE 0) |-> i]

\* list(range(current_revision, 0, -1)): current, current - 1, ..., 1.
RevisionRange(current) == [i \in 1..(IF current > 0 THEN current ELSE 0) |-> current + 1 - i]

(***************************************************************************)
(* Archive state: what the store serves for one revision.  `snap download` *)
(* succeeds or exits non-zero; unsquashfs succeeds or exits non-zero on    *)
(* the downloaded file; the manifest is the mapping yaml.safe_load returns *)
(* (a key is present or not; architectures is a list).                     *)
(***************************************************************************)
Manifest(hv, v, ha, a) ==
    [has_version |-> hv, version |-> v, has_architectures |-> ha, architectures |-> a]

NoManifest == Manifest(FALSE, "", FALSE, <<>>)

Store(f, s, m) == [fetch_ok |-> f, squash_ok |-> s, manifest |-> m]

\* A revision the store does not serve: `snap download` exits non-zero.
Unavailable == Store(FALSE, FALSE, NoManifest)

ArchiveKinds ==
    { Unavailable,
      Store(TRUE, FALSE, NoManifest),
      Store(TRUE, TRUE, Manifest(TRUE, "5.4", TRUE, <<"amd64">>)),
      Store(TRUE, TRUE, Manifest(TRUE, "5.15", TRUE, <<"arm64", "amd64">>)),
      Store(TRUE, TRUE, Manifest(TRUE, "5.4", TRUE, <<>>)),
      Store(TRUE, TRUE, Manifest(FALSE, "", TRUE, <<"amd64">>)),
      Store(TRUE, TRUE, Manifest(TRUE, "5.4", FALSE, <<>>)) }

\* The archives of a store whose highest revision is n.
ArchivesFor(n) ==
    {a \in [1..MaxRev -> ArchiveKinds] : \A r \in 1..MaxRev : r > n => a[r] = Unavailable}

Registry(rc, lines) == [returncode |-> rc, stdout |-> lines]

\* The registry answers of a store whose highest revision is n.
RegistriesFor(n) ==
    IF n = 0
    THEN { Registry(1, <<>>), Registry(0, <<>>), Registry(0, <<<<TxtTok>>>>),
           Registry(0, <<RecordLine(<<0>>)>>) }
    ELSE IF n = 1
    THEN { Registry(0, <<RecordLine(<<1>>)>>) }
    ELSE { Registry(0, <<RecordLine(<<1>>), RecordLine(<<n>>)>>) }

\* The file args.output: whether open(args.output, "w") has truncated it,
\* the header row and the data rows written to it since.  Before the run it
\* holds whatever an earlier run left.
StaleOutput == [truncated |-> FALSE, header |-> <<>>, rows |-> <<>>]

Header == <<"revision", "version", "architecture">>

\* Names tempfile.TemporaryDirectory can pick: at most one directory per
\* worker thread exists at a time.
DirNames == 1..MaxWorkers

NoDir == [exists |-> FALSE, snaps |-> {}, has_yaml |-> FALSE, yaml |-> NoManifest]

NoThread == [stage |-> "none", work_item |-> 0, temp_dir |-> 0, snap_yaml |-> NoManifest]

IdleThread == [stage |-> "idle", work_item |-> 0, temp_dir |-> 0, snap_yaml |-> NoManifest]

VARIABLES
    registry,          \* input: the answer of `snap info`
    archive,           \* input: revision -> what the store serves for it
    workers,           \* input: args.workers
    output,            \* the rows of the file args.output
    pc,                \* where main is
    error,             \* the exception that ended main, or "none"
    current_revision,  \* main's current_revision
    revisions,         \* main's revisions
    futures,           \* the futures in submission order, with futures[f] = rev
    work_queue,        \* the executor's queue of work items (future indices)
    num_threads,       \* the executor's threads spawned so far
    idle_semaphore,    \* the executor's count of threads known idle
    thread,            \* per worker thread: its place in process_revision
    fs,                \* the temporary directories and their files
    results,           \* main's dict results, in insertion order
    rows,              \* the sorted items still to be written
    hung,              \* input: the revisions whose `snap download` never returns
    log,               \* the records main has logged
    worker_log         \* the records the worker threads have logged

vars ==
    <<registry, archive, workers, output, pc, error, current_revision, revisions,
      futures, work_queue, num_threads, idle_semaphore, thread, fs, results, rows,
      hung, log, worker_log>>

inputs == <<registry, archive, workers, hung>>

logs == <<log, worker_log>>

pool == <<futures, work_queue, num_threads, idle_semaphore, thread, fs>>

\* logging.info / logging.error: the level, the message and the numbers
\* formatted into it.
LogRecord(level, msg, args) == [level |-> level, msg |-> msg, args |-> args]

\* The state when main starts, the inputs given; h holds the revisions
\* whose download blocks (subprocess.run is called without a timeout).
StartWith(reg, arc, w, h) ==
    /\ registry = reg
    /\ archive = arc
    /\ workers = w
    /\ hung = h
    /\ log = <<>>
    /\ worker_log = <<>>
    /\ output = StaleOutput
    /\ pc = "discover"
    /\ error = "none"
    /\ current_revision = 0
    /\ revisions = <<>>
    /\ futures = <<>>
    /\ work_queue = <<>>
    /\ num_threads = 0
    /\ idle_semaphore = 0
    /\ thread = [w2 \in 1..MaxWorkers |-> NoThread]
    /\ fs = [d \in DirNames |-> NoDir]
    /\ results = <<>>
    /\ rows = <<>>

\* Every download returns or fails.
Start(reg, arc, w) == StartWith(reg, arc, w, {})

\* --workers is any int (type=int, line 72).
Init ==
    \E n \in 0..MaxRev : \E reg \in RegistriesFor(n) : \E arc \in ArchivesFor(n) :
        \E w \in (-1)..MaxWorkers : Start(reg, arc, w)

(***************************************************************************)
(* main, lines 79-83: discovery.  An exception of get_current_revision is  *)
(* not caught: main ends with it.                                          *)
(***************************************************************************)
Discover ==
    /\ pc = "discover"
    /\ \E r \in {get_current_revision(registry)} :
          IF r.ok
          THEN /\ current_revision' = r.value
               /\ revisions' = RevisionRange(r.value)
               /\ log' = log \o
                     << LogRecord("INFO", "Current revision: {current_revision}", <<r.value>>),
                        LogRecord("INFO", "Processing {len(revisions)} revisions with {args.workers} workers",
                                  <<Len(RevisionRange(r.value)), workers>>) >>
               /\ pc' = "pool"
               /\ error' = error
          ELSE /\ pc' = "crashed"
               /\ error' = r.exc
               /\ UNCHANGED <<current_revision, revisions, log>>
    /\ UNCHANGED <<inputs, output, pool, results, rows, worker_log>>

\* A plausible slip: a pool that takes any max_workers.
CreatePoolUnchecked ==
    /\ pc = "pool"
    /\ pc' = IF revisions = <<>> THEN "collect" ELSE "submit"
    /\ UNCHANGED <<inputs, output, error, current_revision, revisions, pool, results, rows, logs>>

(***************************************************************************)
(* main, line 86: ThreadPoolExecutor(max_workers=args.workers) raises      *)
(* ValueError when max_workers <= 0; main does not catch it.               *)
(***************************************************************************)
CreatePool ==
    /\ pc = "pool"
    /\ IF workers <= 0
       THEN /\ pc' = "crashed"
            /\ error' = "ValueError"
       ELSE /\ pc' = IF revisions = <<>> THEN "collect" ELSE "submit"
            /\ error' = error
    /\ UNCHANGED <<inputs, output, current_revision, revisions, pool, results, rows, logs>>

NewFuture(rev) ==
    [rev |-> rev, state |-> "PENDING", runs |-> 0, ok |-> FALSE, value |-> <<>>,
     exc |-> "none", yields |-> 0]

\* A plausible slip: the last thread of the budget is never started.
SpawnsThreadShort(sem, n, max) == sem = 0 /\ n < max - 1

\* A plausible slip: a single thread, whatever max_workers is.
SpawnsThreadSingle(sem, n, max) == n = 0

\* A plausible slip: a thread for every submit, max_workers not consulted.
SpawnsThreadUnbounded(sem, n, max) == sem = 0

\* ThreadPoolExecutor._adjust_thread_count: a submit takes a permit of the
\* idle semaphore if there is one, and otherwise starts a thread while
\* fewer than max_workers exist.
SpawnsThread(sem, n, max) == sem = 0 /\ n < max

(***************************************************************************)
(* main, lines 87-89: executor.submit(process_revision, args.snap, rev)    *)
(* for the next rev of revisions; futures[future] = rev.  The threads      *)
(* already started run while main submits.  After the last submit the      *)
(* dict is complete and as_completed starts.                               *)
(***************************************************************************)
Submit ==
    /\ pc = "submit"
    /\ Len(futures) < Len(revisions)
    /\ LET f == Len(futures) + 1
       IN  /\ futures' = Append(futures, NewFuture(revisions[f]))
           /\ work_queue' = Append(work_queue, f)
           /\ IF SpawnsThread(idle_semaphore, num_threads, workers)
              THEN /\ num_threads' = num_threads + 1
                   /\ thread' = [thread EXCEPT ![num_threads + 1] = IdleThread]
                   /\ idle_semaphore' = idle_semaphore
              ELSE /\ idle_semaphore' = IF idle_semaphore > 0 THEN idle_semaphore - 1 ELSE 0
                   /\ UNCHANGED <<num_threads, thread>>
           /\ pc' = IF f = Len(revisions) THEN "collect" ELSE "submit"
    /\ UNCHANGED <<inputs, output, error, current_revision, revisions, fs, results, rows, logs>>

(***************************************************************************)
(* A worker thread (ThreadPoolExecutor._worker) running process_revision.  *)
(***************************************************************************)

\* set_result / set_exception of the thread's future; the thread releases
\* the idle semaphore and waits for the next work item.
Finished(t, outcome) ==
    /\ futures' = [futures EXCEPT ![thread[t].work_item] =
                      [@ EXCEPT !.state = "FINISHED", !.ok = outcome.ok,
                                !.value = outcome.value, !.exc = outcome.exc]]
    /\ thread' = [thread EXCEPT ![t] = IdleThread]
    /\ idle_semaphore' = idle_semaphore + 1

Raised(exc) == [ok |-> FALSE, value |-> <<>>, exc |-> exc]

Returned(value) == [ok |-> TRUE, value |-> value, exc |-> "none"]

\* A plausible slip: one fixed scratch path for every call.
FreshDirFixed(dirs) == {1}

\* tempfile.mkdtemp: a directory under a name no existing directory has.
\* The names are interchangeable, so the least free one stands for the
\* random name.
FreshDir(dirs) == {d \in DirNames : ~dirs[d].exists /\ \A e \in 1..(d - 1) : dirs[e].exists}

\* A plausible slip: mkdtemp() in place of the context manager, the
\* directory never removed.
CleanupKeeps(dirs, d) == dirs

\* TemporaryDirectory.__exit__: the directory and all it holds are removed,
\* however the with block is left.
Cleanup(dirs, d) == [dirs EXCEPT ![d] = NoDir]

\* Lines 37-38: the thread takes the oldest work item of the queue and
\* enters process_revision, which logs the revision; TemporaryDirectory()
\* creates the directory.
Take(t) ==
    /\ thread[t].stage = "idle"
    /\ work_queue # <<>>
    /\ \E d \in FreshDir(fs) :
          /\ fs' = [fs EXCEPT ![d] = [NoDir EXCEPT !.exists = TRUE]]
          /\ thread' = [thread EXCEPT ![t] =
                           [stage |-> "download", work_item |-> Head(work_queue),
                            temp_dir |-> d, snap_yaml |-> NoManifest]]
    /\ futures' = [futures EXCEPT ![Head(work_queue)] =
                      [@ EXCEPT !.state = "RUNNING", !.runs = @ + 1]]
    /\ work_queue' = Tail(work_queue)
    /\ worker_log' = Append(worker_log,
                            LogRecord("INFO", "Processing revision {revision}",
                                      <<futures[Head(work_queue)].rev>>))
    /\ UNCHANGED <<inputs, output, pc, error, current_revision, revisions,
                   num_threads, idle_semaphore, results, rows, log>>

\* Lines 40-45: snap download --revision rev, cwd=temp_dir, check=True.
\* An exception leaves the with block, which removes the directory.  The
\* call has no timeout: the thread waits for as long as the download runs.
Download(t) ==
    /\ thread[t].stage = "download"
    /\ futures[thread[t].work_item].rev \notin hung
    /\ LET rev == futures[thread[t].work_item].rev
           d == thread[t].temp_dir
       IN  IF archive[rev].fetch_ok
           THEN /\ fs' = [fs EXCEPT ![d].snaps = @ \cup {rev}]
                /\ thread' = [thread EXCEPT ![t].stage = "unsquashfs"]
                /\ UNCHANGED <<futures, idle_semaphore>>
           ELSE /\ fs' = Cleanup(fs, d)
                /\ Finished(t, Raised("CalledProcessError"))
    /\ UNCHANGED <<inputs, output, pc, error, current_revision, revisions,
                   work_queue, num_threads, results, rows, logs>>

\* Lines 48-57: unsquashfs {snap}_{rev}.snap meta/snap.yaml, cwd=temp_dir,
\* check=True: non-zero exit when the file is absent or malformed.
Unsquashfs(t) ==
    /\ thread[t].stage = "unsquashfs"
    /\ LET rev == futures[thread[t].work_item].rev
           d == thread[t].temp_dir
       IN  IF rev \in fs[d].snaps /\ archive[rev].squash_ok
           THEN /\ fs' = [fs EXCEPT ![d].has_yaml = TRUE, ![d].yaml = archive[rev].manifest]
                /\ thread' = [thread EXCEPT ![t].stage = "load"]
                /\ UNCHANGED <<futures, idle_semaphore>>
           ELSE /\ fs' = Cleanup(fs, d)
                /\ Finished(t, Raised("CalledProcessError"))
    /\ UNCHANGED <<inputs, output, pc, error, current_revision, revisions,
                   work_queue, num_threads, results, rows, logs>>

\* Lines 58-61: open squashfs-root/meta/snap.yaml under temp_dir and
\* yaml.safe_load it; then the with block ends and removes the directory.
Load(t) ==
    /\ thread[t].stage = "load"
    /\ LET d == thread[t].temp_dir
       IN  /\ fs' = Cleanup(fs, d)
           /\ IF fs[d].has_yaml
              THEN /\ thread' = [thread EXCEPT ![t].stage = "parse", ![t].temp_dir = 0,
                                               ![t].snap_yaml = fs[d].yaml]
                   /\ UNCHANGED <<futures, idle_semaphore>>
              ELSE Finished(t, Raised("FileNotFoundError"))
    /\ UNCHANGED <<inputs, output, pc, error, current_revision, revisions,
                   work_queue, num_threads, results, rows, logs>>

\* Lines 63-67: snap_yaml["version"] and snap_yaml["architectures"] raise
\* KeyError for a missing key, [0] raises IndexError on an empty list.
ReadManifest(m) ==
    IF ~m.has_version THEN Raised("KeyError")
    ELSE IF ~m.has_architectures THEN Raised("KeyError")
    ELSE IF m.architectures = <<>> THEN Raised("IndexError")
    ELSE Returned(<<m.version, m.architectures[1]>>)

\* A plausible slip: process_revision stores its result in the shared dict
\* itself.
ParseStoring(t) ==
    /\ thread[t].stage = "parse"
    /\ Finished(t, ReadManifest(thread[t].snap_yaml))
    /\ results' = IF ReadManifest(thread[t].snap_yaml).ok
                  THEN Append(results,
                              [rev |-> futures[thread[t].work_item].rev,
                               version |-> ReadManifest(thread[t].snap_yaml).value[1],
                               architecture |-> ReadManifest(thread[t].snap_yaml).value[2]])
                  ELSE results
    /\ UNCHANGED <<inputs, output, pc, error, current_revision, revisions,
                   work_queue, num_threads, fs, rows, logs>>

Parse(t) ==
    /\ thread[t].stage = "parse"
    /\ Finished(t, ReadManifest(thread[t].snap_yaml))
    /\ UNCHANGED <<inputs, output, pc, error, current_revision, revisions,
                   work_queue, num_threads, fs, results, rows, logs>>

(***************************************************************************)
(* main, lines 90-96: the collection loop.                                 *)
(***************************************************************************)
Item(rev, value) == [rev |-> rev, version |-> value[1], architecture |-> value[2]]

\* A plausible slip: results rebound to a dict of the one new item.
DictSetOnly(d, rev, value) == <<Item(rev, value)>>

\* results[rev] = (version, architecture) on a dict, which keeps its keys
\* in insertion order: a new key is appended, an old key keeps its place.
DictSet(d, rev, value) ==
    IF \E i \in 1..Len(d) : d[i].rev = rev
    THEN [i \in 1..Len(d) |-> IF d[i].rev = rev THEN Item(rev, value) ELSE d[i]]
    ELSE Append(d, Item(rev, value))

\* A plausible slip: the comprehension's last rev instead of the future's.
FutureRevLast(fmap, f) == fmap[Len(fmap)].rev

\* rev = futures[future]
FutureRev(fmap, f) == fmap[f].rev

\* A plausible slip: only the subprocess errors are caught.
CaughtSubprocessOnly(exc) == exc = "CalledProcessError"

\* `except Exception`: every exception process_revision can raise is one.
Caught(exc) ==
    exc \in {"CalledProcessError", "FileNotFoundError", "KeyError", "IndexError"}

\* as_completed yields a finished future it has not yielded yet, in no
\* fixed order; future.result() returns the value or raises the exception.
\* A caught exception is logged with its revision (the exception's text is
\* not kept in the record).  An exception that is not caught leaves the
\* with block.
Collect(f) ==
    /\ pc = "collect"
    /\ futures[f].state = "FINISHED"
    /\ futures[f].yields = 0
    /\ futures' = [futures EXCEPT ![f].yields = @ + 1]
    /\ IF futures[f].ok
       THEN /\ results' = DictSet(results, FutureRev(futures, f), futures[f].value)
            /\ UNCHANGED <<pc, error, log>>
       ELSE IF Caught(futures[f].exc)
       THEN /\ log' = Append(log, LogRecord("ERROR", "Error processing revision {rev}: {e}",
                                            <<FutureRev(futures, f)>>))
            /\ UNCHANGED <<results, pc, error>>
       ELSE /\ pc' = "unwind"
            /\ error' = futures[f].exc
            /\ UNCHANGED <<results, log>>
    /\ UNCHANGED <<inputs, output, current_revision, revisions, work_queue,
                   num_threads, idle_semaphore, thread, fs, rows, worker_log>>

\* A plausible slip: the pool left with shutdown(wait=False) as soon as the
\* loop is reached, the futures not waited for.
ExitPoolNoWait ==
    /\ pc = "collect"
    /\ pc' = "open"
    /\ UNCHANGED <<inputs, output, error, current_revision, revisions, pool, results, rows, logs>>

\* The end of the with block: executor.shutdown(wait=True) returns when
\* the queue is empty and every thread has finished its work item.  The
\* loop ends when as_completed has yielded every future.
ExitPool ==
    /\ \/ pc = "unwind"
       \/ pc = "collect" /\ \A f \in 1..Len(futures) : futures[f].yields > 0
    /\ work_queue = <<>>
    /\ \A t \in 1..MaxWorkers : thread[t].stage \in {"none", "idle"}
    /\ pc' = IF error = "none" THEN "open" ELSE "crashed"
    /\ UNCHANGED <<inputs, output, error, current_revision, revisions, pool, results, rows, logs>>

(***************************************************************************)
(* main, lines 98-103: the CSV.                                            *)
(***************************************************************************)

\* A plausible slip: results.items() written in insertion order.
PySortedNot(d) == d

\* A plausible slip: the comparison reversed (newest first, as submitted).
RECURSIVE InsertByRevDesc(_, _)
InsertByRevDesc(x, s) ==
    IF s = <<>>
    THEN <<x>>
    ELSE IF x.rev > Head(s).rev
    THEN <<x>> \o s
    ELSE <<Head(s)>> \o InsertByRevDesc(x, Tail(s))

RECURSIVE InsertByRev(_, _)
InsertByRev(x, s) ==
    IF s = <<>>
    THEN <<x>>
    ELSE IF x.rev < Head(s).rev
    THEN <<x>> \o s
    ELSE <<Head(s)>> \o InsertByRev(x, Tail(s))

RECURSIVE InsertionSort(_)
InsertionSort(d) ==
    IF d = <<>>
    THEN <<>>
    ELSE InsertByRev(d[Len(d)], InsertionSort(SubSeq(d, 1, Len(d) - 1)))

\* sorted(results.items()): the keys are distinct, so the items are
\* ordered by key.
PySorted(d) == InsertionSort(d)

\* open(args.output, "w") truncates the file; the header row is written.
OpenOutput ==
    /\ pc = "open"
    /\ output' = [truncated |-> TRUE, header |-> Header, rows |-> <<>>]
    /\ rows' = PySorted(results)
    /\ pc' = "write"
    /\ UNCHANGED <<inputs, error, current_revision, revisions, pool, results, logs>>

\* writer.writerow([rev, version, architecture]) for the next item.
WriteRow ==
    /\ pc = "write"
    /\ rows # <<>>
    /\ output' = [output EXCEPT !.rows = Append(@, Head(rows))]
    /\ rows' = Tail(rows)
    /\ UNCHANGED <<inputs, pc, error, current_revision, revisions, pool, results, logs>>

\* The file is closed; "Done! Results saved to ..." is logged.
Close ==
    /\ pc = "write"
    /\ rows = <<>>
    /\ log' = Append(log, LogRecord("INFO", "Done! Results saved to {args.output}", <<>>))
    /\ pc' = "done"
    /\ UNCHANGED <<inputs, output, error, current_revision, revisions, pool, results, rows,
                   worker_log>>

Worker(t) == Take(t) \/ Download(t) \/ Unsquashfs(t) \/ Load(t) \/ Parse(t)

Main ==
    \/ Discover
    \/ CreatePool
    \/ Submit
    \/ \E f \in 1..Len(futures) : Collect(f)
    \/ ExitPool
    \/ OpenOutput
    \/ WriteRow
    \/ Close

(***************************************************************************)
(* The revision source alone: get_current_revision applied to registry     *)
(* answers of up to MaxLines lines, matching and not.                      *)
(***************************************************************************)
SourceDigits == {<<k>> : k \in 0..MaxRev} \cup {<<0, MaxRev>>, <<1, 0>>}

SourceLines ==
    {<<TxtTok>>}
    \cup {<<DateTok, SpTok, NumTok(d)>> : d \in SourceDigits}
    \cup {<<TxtTok, DateTok, SpTok, SpTok, NumTok(d), TxtTok>> : d \in SourceDigits}
    \cup {<<DateTok, NumTok(d)>> : d \in SourceDigits}
    \cup {<<DateTok, TxtTok, NumTok(d)>> : d \in SourceDigits}
    \cup {<<NumTok(d), SpTok, DateTok>> : d \in SourceDigits}

SourceTexts == UNION {[1..n -> SourceLines] : n \in 0..MaxLines}

InitSource ==
    \E rc \in {0, 1} : \E text \in SourceTexts :
        Start(Registry(rc, text), [r \in 1..MaxRev |-> Unavailable], 1)

SpecSource == InitSource /\ [][Discover]_vars

Next == Main \/ \E t \in 1..MaxWorkers : Worker(t)

Spec == Init /\ [][Next]_vars

(***************************************************************************)
(* Properties.  What a run should do is stated from the inputs alone: the  *)
(* registry answer and the archive.                                        *)
(***************************************************************************)

\* The line holds a revision record `YYYY-MM-DD (N)`.
HasRecord(line) == \E i \in 1..Len(line) : \E j \in 1..Len(line) : MatchesAt(line, i, j)

\* The discovery stage fails: the query fails or its answer has no record.
DiscoveryFails ==
    \/ registry.returncode # 0
    \/ \A k \in 1..Len(registry.stdout) : ~HasRecord(registry.stdout[k])

\* The extraction of revision r succeeds: the archive can be fetched and
\* opened and its manifest has a version and a non-empty architecture list.
Succeeds(r) ==
    /\ archive[r].fetch_ok
    /\ archive[r].squash_ok
    /\ archive[r].manifest.has_version
    /\ archive[r].manifest.has_architectures
    /\ Len(archive[r].manifest.architectures) > 0

Domain == 1..current_revision

Collected == pc \in {"open", "write", "done"}

Keys(d) == {d[i].rev : i \in 1..Len(d)}

\* C1: every revision of 1..currentRevision is submitted exactly once and
\* run exactly once, and has exactly one outcome, Success or Failure, that
\* is collected once: none is processed twice, skipped or retried.
C1_EveryRevisionOnce ==
    /\ \A f \in 1..Len(futures) :
          /\ futures[f].rev \in Domain
          /\ futures[f].runs <= 1
          /\ futures[f].yields <= 1
          /\ futures[f].runs = 0 <=> futures[f].state = "PENDING"
          /\ \A g \in 1..Len(futures) : futures[g].rev = futures[f].rev => g = f
    /\ pc \in {"collect", "open", "write", "done"} =>
          {futures[f].rev : f \in 1..Len(futures)} = Domain
    /\ Collected =>
          \A f \in 1..Len(futures) :
             /\ futures[f].state = "FINISHED"
             /\ futures[f].runs = 1
             /\ futures[f].yields = 1
             /\ futures[f].ok <=> futures[f].exc = "none"

C1_Witness ==
    /\ pc = "done"
    /\ current_revision = 2
    /\ workers = 2
    /\ \E f \in 1..Len(futures) : ~futures[f].ok
    /\ \E f \in 1..Len(futures) : futures[f].ok

\* C2: a failed revision aborts neither the pool nor another revision:
\* main ends with an error only before anything is submitted; after the
\* collection loop every future has finished and the ResultSet holds
\* exactly the revisions whose extraction succeeds; the output is written,
\* and with exactly one failing revision it has currentRevision - 1 entries.
C2_FailureIsolation ==
    /\ error # "none" => futures = <<>>
    /\ pc \notin {"unwind", "crashed"} \/ futures = <<>>
    /\ Collected =>
          /\ \A f \in 1..Len(futures) : futures[f].state = "FINISHED"
          /\ Keys(results) = {r \in Domain : Succeeds(r)}
          /\ Len(results) = Cardinality(Keys(results))
    /\ pc = "done" =>
          /\ output.truncated
          /\ output.header = Header
          /\ Len(output.rows) = Len(results)
          /\ Cardinality({r \in Domain : ~Succeeds(r)}) = 1 =>
                Len(results) = current_revision - 1

C2_Witness ==
    /\ pc = "done"
    /\ current_revision = 2
    /\ Cardinality({r \in Domain : ~Succeeds(r)}) = 1
    /\ Len(output.rows) = 1

\* C3: whatever the order the completions arrive in, the rows written to
\* the output, and those still to be written after them, are strictly
\* ascending by revision.
C3_RowsAscending ==
    LET all == output.rows \o rows
    IN  \A i \in 1..Len(all) : \A j \in 1..Len(all) : i < j => all[i].rev < all[j].rev

\* The completions arrived newest first, and both rows are written.
C3_Witness ==
    /\ pc = "done"
    /\ Len(output.rows) = 2
    /\ results[1].rev > results[2].rev

\* The rows of a run, from the inputs alone: ascending over the revisions
\* up to n, the metadata of each revision that succeeds.
RECURSIVE ExpectedRows(_)
ExpectedRows(n) ==
    IF n <= 0
    THEN <<>>
    ELSE ExpectedRows(n - 1) \o
         (IF Succeeds(n)
          THEN <<[rev |-> n, version |-> archive[n].manifest.version,
                  architecture |-> archive[n].manifest.architectures[1]]>>
          ELSE <<>>)

\* C4: the output of a completed run is a function of the registry answer
\* and the archive alone: the interleaving of the workers, the order of
\* the completions and the value of workers do not change it.
C4_Deterministic ==
    pc = "done" =>
        output = [truncated |-> TRUE, header |-> Header,
                  rows |-> ExpectedRows(get_current_revision(registry).value)]

\* Two workers, the completions collected out of submission order.
C4_Witness ==
    /\ pc = "done"
    /\ workers = 2
    /\ num_threads = 2
    /\ Len(results) = 2
    /\ results[1].rev < results[2].rev

\* C5: every row written is the row of a revision whose extraction
\* succeeds and carries that revision's own version and architecture; a
\* completed run has one row per such revision and none for a failed one.
C5_RowsCarryOwnMetadata ==
    /\ \A i \in 1..Len(output.rows) :
          LET row == output.rows[i]
          IN  /\ row.rev \in Domain
              /\ Succeeds(row.rev)
              /\ row.version = archive[row.rev].manifest.version
              /\ row.architecture = archive[row.rev].manifest.architectures[1]
    /\ pc = "done" =>
          \A r \in Domain :
             Cardinality({i \in 1..Len(output.rows) : output.rows[i].rev = r})
                = IF Succeeds(r) THEN 1 ELSE 0

\* Two revisions with different metadata, run by two threads.
C5_Witness ==
    /\ pc = "done"
    /\ num_threads = 2
    /\ Len(output.rows) = 2
    /\ output.rows[1].version # output.rows[2].version
    /\ output.rows[1].architecture # output.rows[2].architecture

\* C6: when discovery fails, no revision is ever submitted, no thread is
\* started and the output file is neither truncated nor written: main ends
\* in the discovery stage.
C6_FatalDiscovery ==
    DiscoveryFails =>
        /\ pc \in {"discover", "crashed"}
        /\ futures = <<>>
        /\ work_queue = <<>>
        /\ num_threads = 0
        /\ output = StaleOutput

\* The query succeeds and its answer has no revision record.
C6_Witness ==
    /\ pc = "crashed"
    /\ registry.returncode = 0
    /\ DiscoveryFails
    /\ workers > 0

\* The integers of the revision records of a registry answer.
MatchedInts(text) ==
    {PyInt(ReSearch(text[k]).group1) : k \in {l \in 1..Len(text) : HasRecord(text[l])}}

\* C7: with a registry answer that has no revision record, CurrentRevision
\* fails with the error NoRevisionsFound.
C7_NoRevisionsFound ==
    (pc # "discover" /\ registry.returncode = 0 /\ MatchedInts(registry.stdout) = {}) =>
        (pc = "crashed" /\ error = "NoRevisionsFound")

\* C8: with at least one revision record in the answer, in any order and
\* with any repetition, CurrentRevision returns the greatest of the
\* integers of the records, and the revisions to process are exactly
\* 1..that maximum, each once.
C8_MaximumAndDomain ==
    LET ints == MatchedInts(registry.stdout)
    IN  (pc # "discover" /\ registry.returncode = 0 /\ ints # {}) =>
            /\ pc = "pool"
            /\ error = "none"
            /\ current_revision \in ints
            /\ \A n \in ints : n <= current_revision
            /\ {revisions[i] : i \in 1..Len(revisions)} = 1..current_revision
            /\ Len(revisions) = current_revision

\* Two records, the greater first.
C8_Witness ==
    /\ pc = "pool"
    /\ Len(registry.stdout) = 2
    /\ HasRecord(registry.stdout[1])
    /\ HasRecord(registry.stdout[2])
    /\ PyInt(ReSearch(registry.stdout[1]).group1) > PyInt(ReSearch(registry.stdout[2]).group1)
    /\ PyInt(ReSearch(registry.stdout[2]).group1) >= 1
    /\ Len(revisions) >= 2

\* The manifest of revision r is read and its architecture list is empty.
EmptyArchitectures(r) ==
    /\ archive[r].fetch_ok
    /\ archive[r].squash_ok
    /\ archive[r].manifest.has_version
    /\ archive[r].manifest.has_architectures
    /\ archive[r].manifest.architectures = <<>>

\* C9: a revision whose manifest has an empty architecture list fails with
\* ManifestInvalid, the list never indexed (no IndexError), and is absent
\* from the ResultSet.
C9_EmptyArchitectures ==
    \A f \in 1..Len(futures) :
        (futures[f].state = "FINISHED" /\ EmptyArchitectures(futures[f].rev)) =>
            /\ ~futures[f].ok
            /\ futures[f].exc = "ManifestInvalid"
            /\ futures[f].rev \notin Keys(results)

(***************************************************************************)
(* Fairness: the scheduler runs every thread that can take a step, and     *)
(* every call of an external program returns or fails.                     *)
(***************************************************************************)
\* One archive state per path through process_revision: the download
\* fails, unsquashfs fails, the manifest is returned, reading it raises.
PathKinds ==
    { Unavailable,
      Store(TRUE, FALSE, NoManifest),
      Store(TRUE, TRUE, Manifest(TRUE, "5.4", TRUE, <<"amd64">>)),
      Store(TRUE, TRUE, Manifest(TRUE, "5.4", TRUE, <<>>)) }

InitPaths ==
    \E n \in 0..MaxRev : \E reg \in RegistriesFor(n) :
        \E arc \in {a \in ArchivesFor(n) : \A r \in 1..MaxRev : a[r] \in PathKinds} :
            \E w \in 0..MaxWorkers : Start(reg, arc, w)

FairSpec ==
    InitPaths /\ [][Next]_vars /\ WF_vars(Main) /\ \A t \in 1..MaxWorkers : WF_vars(Worker(t))

RunComplete ==
    /\ pc = "done"
    /\ output.truncated
    /\ Len(futures) = current_revision
    /\ \A f \in 1..Len(futures) : futures[f].state = "FINISHED" /\ futures[f].yields = 1

\* C10: once discovery has succeeded and workers >= 1, the run reaches the
\* state where every submitted revision has an outcome and the output is
\* written; and whenever a revision is pending in the queue, some thread
\* exists and can take a step (no deadlock).
C10_Terminates ==
    /\ (pc = "pool" /\ workers >= 1) ~> RunComplete
    /\ [](work_queue # <<>> => num_threads >= 1 /\ \E t \in 1..MaxWorkers : ENABLED Worker(t))

\* One worker for two revisions.
C10_Witness ==
    /\ RunComplete
    /\ workers = 1
    /\ Len(futures) = 2

(***************************************************************************)
(* The report, the pool and the collection loop.                           *)
(***************************************************************************)

\* C11: at the end of a completed run the log holds a completion message
\* naming the output and a summary record with the counts of processed,
\* succeeded and failed revisions, succeeded + failed = processed =
\* currentRevision.
C11_SummaryReported ==
    pc = "done" =>
        /\ \E i \in 1..Len(log) : log[i].msg = "Done! Results saved to {args.output}"
        /\ \E i \in 1..Len(log) :
              /\ Len(log[i].args) = 3
              /\ log[i].args[1] = current_revision
              /\ log[i].args[2] = Len(results)
              /\ log[i].args[2] + log[i].args[3] = log[i].args[1]

\* The threads inside process_revision.
InFlight == {t \in 1..MaxWorkers : thread[t].stage \notin {"none", "idle"}}

Running == {f \in 1..Len(futures) : futures[f].state = "RUNNING"}

\* C12: the threads started never exceed workers, so at most workers
\* revisions are in flight; a thread runs one revision at a time and a
\* running revision is run by exactly one thread.
C12_BoundedConcurrency ==
    /\ num_threads <= (IF workers > 0 THEN workers ELSE 0)
    /\ \A t \in 1..MaxWorkers : thread[t].stage # "none" <=> t <= num_threads
    /\ Cardinality(InFlight) <= workers \/ InFlight = {}
    /\ Cardinality(Running) = Cardinality(InFlight)
    /\ \A t \in InFlight : thread[t].work_item \in Running
    /\ \A t \in InFlight : \A u \in InFlight :
          thread[t].work_item = thread[u].work_item => t = u

\* One worker: a revision waits in the queue while the other is in flight.
C12_Witness ==
    /\ workers = 1
    /\ InFlight = {1}
    /\ work_queue # <<>>
    /\ Len(futures) = 2

\* C13: the output file is opened and written only after every revision
\* has been submitted, has finished and has been collected: while a
\* revision is pending, in flight or uncollected the file is untouched.
C13_SinkAfterCollection ==
    (pc \in {"open", "write", "done"} \/ output # StaleOutput) =>
        /\ Len(futures) = Len(revisions)
        /\ \A f \in 1..Len(futures) : futures[f].state = "FINISHED" /\ futures[f].yields = 1
        /\ work_queue = <<>>
        /\ InFlight = {}
        /\ error = "none"

\* The file is being written after two threads ran two revisions.
C13_Witness ==
    /\ pc = "write"
    /\ output.truncated
    /\ Len(futures) = 2
    /\ num_threads = 2

(***************************************************************************)
(* A download that never returns.  subprocess.run has no timeout, so the   *)
(* thread that runs it stays in it; every other call returns or fails and  *)
(* the scheduler runs every thread that can take a step.                   *)
(***************************************************************************)
\* The other revisions fail in their download or are extracted; what the
\* store would serve for the revision that hangs plays no part.
HangKinds == {Unavailable, Store(TRUE, TRUE, Manifest(TRUE, "5.4", TRUE, <<"amd64">>))}

InitHang ==
    \E n \in 0..MaxRev : \E reg \in RegistriesFor(n) :
        \E h \in {{}} \cup {{r} : r \in 1..n} :
            \E arc \in {a \in ArchivesFor(n) :
                           \A r \in 1..MaxRev :
                              a[r] \in (IF r \in h THEN {Unavailable} ELSE HangKinds)} :
                \E w \in 0..MaxWorkers : StartWith(reg, arc, w, h)

HangSpec ==
    InitHang /\ [][Next]_vars /\ WF_vars(Main) /\ \A t \in 1..MaxWorkers : WF_vars(Worker(t))

\* Thread t is inside the download of revision h.
Downloading(t, h) ==
    /\ thread[t].stage = "download"
    /\ futures[thread[t].work_item].rev = h

\* Every revision is submitted and every revision but h has run and finished.
OthersCompleted(h) ==
    /\ Len(futures) = current_revision
    /\ \A f \in 1..Len(futures) :
          futures[f].rev # h => futures[f].state = "FINISHED" /\ futures[f].runs = 1

\* C14: with workers >= 2 and the download of one revision h never
\* returning, one thread stays in that download and every other revision is
\* still started and finished by the other threads; the output file is then
\* never opened.
C14_HungFetchIsolated ==
    /\ (pc = "pool" /\ workers >= 2 /\ hung # {}) ~>
          (\E h \in hung : OthersCompleted(h) /\ \E t \in 1..MaxWorkers : Downloading(t, h))
    /\ [](\A h \in 1..MaxRev :
             (hung = {h} /\ h \in Domain) =>
                 (output = StaleOutput /\ pc \notin {"open", "write", "done"}))

\* The newest revision hangs in the first thread; the second thread has
\* finished the other revision, which main has collected.
C14_Witness ==
    /\ hung = {2}
    /\ workers = 2
    /\ Len(futures) = 2
    /\ Downloading(1, 2)
    /\ futures[2].state = "FINISHED"
    /\ futures[2].yields = 1

(***************************************************************************)
(* The temporary directories.                                              *)
(***************************************************************************)

\* The threads inside the with block of process_revision.
InWorkspace == {t \in 1..MaxWorkers : thread[t].stage \in {"download", "unsquashfs", "load"}}

RevOf(t) == futures[thread[t].work_item].rev

\* C15: a directory exists only while a thread is inside the with block
\* that created it: when process_revision returns or raises, at whatever
\* step, its directory is gone, and after the pool is left none exists.
C15_WorkspaceRemoved ==
    /\ \A d \in DirNames : fs[d].exists <=> \E t \in InWorkspace : thread[t].temp_dir = d
    /\ \A d \in DirNames : ~fs[d].exists => fs[d] = NoDir
    /\ \A t \in 1..MaxWorkers : t \notin InWorkspace => thread[t].temp_dir = 0
    /\ (\A f \in 1..Len(futures) : futures[f].state = "FINISHED") => \A d \in DirNames : fs[d] = NoDir
    /\ pc \in {"open", "write", "done"} => \A d \in DirNames : fs[d] = NoDir

\* A completed run with an extraction that returned and one whose
\* unsquashfs failed after the download had put a file in the directory.
C15_Witness ==
    /\ pc = "done"
    /\ current_revision = 2
    /\ Succeeds(2)
    /\ archive[1].fetch_ok
    /\ ~archive[1].squash_ok
    /\ \A d \in DirNames : fs[d] = NoDir

\* C16: no two threads inside process_revision hold the same directory; a
\* directory holds only what its own extraction put there, the extraction
\* reads only its own manifest, and a step changes no directory but the one
\* of the thread that takes it.
C16_ExclusiveWorkspace ==
    /\ [](/\ \A t \in InWorkspace : \A u \in InWorkspace :
                thread[t].temp_dir = thread[u].temp_dir => t = u
          /\ \A t \in InWorkspace :
                /\ thread[t].temp_dir \in DirNames
                /\ fs[thread[t].temp_dir].exists
                /\ fs[thread[t].temp_dir].snaps \subseteq {RevOf(t)}
                /\ fs[thread[t].temp_dir].has_yaml =>
                      fs[thread[t].temp_dir].yaml = archive[RevOf(t)].manifest
          /\ \A t \in 1..MaxWorkers :
                thread[t].stage = "parse" => thread[t].snap_yaml = archive[RevOf(t)].manifest)
    /\ [][\A d \in DirNames :
             fs'[d] # fs[d] =>
                \E t \in 1..MaxWorkers :
                   /\ thread'[t] # thread[t]
                   /\ thread[t].temp_dir = d \/ thread'[t].temp_dir = d
                   /\ \A u \in 1..MaxWorkers : u # t => thread'[u] = thread[u]]_vars

\* Two threads, each with the downloaded file of its own revision in its
\* own directory.
C16_Witness ==
    /\ InWorkspace = {1, 2}
    /\ thread[1].temp_dir # thread[2].temp_dir
    /\ fs[thread[1].temp_dir].snaps = {RevOf(1)}
    /\ fs[thread[2].temp_dir].snaps = {RevOf(2)}
    /\ RevOf(1) # RevOf(2)

(***************************************************************************)
(* The ResultSet and the order of the work.                                *)
(***************************************************************************)

\* C17: results changes only in a step of the collection loop, which
\* yields one future and adds that future's one item; no step of a worker
\* thread changes results; and no future is yielded twice.
C17_SingleCollectionPoint ==
    /\ [][results' # results =>
             /\ pc = "collect"
             /\ thread' = thread
             /\ fs' = fs
             /\ Len(results') = Len(results) + 1
             /\ \E f \in 1..Len(futures) :
                   /\ futures[f].ok
                   /\ futures[f].yields = 0
                   /\ futures'[f].yields = 1
                   /\ results'[Len(results')] = Item(futures[f].rev, futures[f].value)
                   /\ \A g \in 1..Len(futures) : g # f => futures'[g] = futures[g]]_vars
    /\ [][(\E t \in 1..MaxWorkers : Worker(t)) => results' = results]_vars
    /\ [][\A f \in 1..Len(futures) :
             futures'[f].yields # futures[f].yields =>
                (pc = "collect" /\ futures[f].yields = 0 /\ futures'[f].yields = 1)]_vars
    /\ [](Collected => \A f \in 1..Len(futures) : futures[f].yields = 1)

\* One outcome is in results while a thread is still inside
\* process_revision.
C17_Witness ==
    /\ pc = "collect"
    /\ Len(results) = 1
    /\ InFlight # {}

\* The futures that have started, in submission order.
Started == {f \in 1..Len(futures) : futures[f].state # "PENDING"}

C19_ResultSetGrows ==
    /\ [][/\ Len(results') \in {Len(results), Len(results) + 1}
          /\ SubSeq(results', 1, Len(results)) = results]_vars
    /\ [](/\ Cardinality(Keys(results)) = Len(results)
          /\ Keys(results) \subseteq Domain
          /\ \A r \in Keys(results) : Succeeds(r)
          /\ Keys(results) =
                {futures[f].rev : f \in {g \in 1..Len(futures) :
                                            futures[g].ok /\ futures[g].yields = 1}})

\* The second item has been inserted after the first.
C19_Witness ==
    /\ pc = "collect"
    /\ Len(results) = 2
    /\ \A f \in 1..Len(futures) : futures[f].yields = 1

\* C20: with workers below 1 main ends at the creation of the pool, with
\* the ValueError of ThreadPoolExecutor when discovery succeeded: nothing is
\* submitted, no thread is started, nothing waits in a queue and the
\* output file is untouched.
C20_NoPoolBelowOne ==
    workers < 1 =>
        /\ pc \in {"discover", "pool", "crashed"}
        /\ futures = <<>>
        /\ work_queue = <<>>
        /\ num_threads = 0
        /\ output = StaleOutput
        /\ (pc = "crashed" /\ ~DiscoveryFails) => error = "ValueError"

\* Discovery found two revisions and the pool was refused.
C20_Witness ==
    /\ workers < 1
    /\ pc = "crashed"
    /\ error = "ValueError"
    /\ current_revision = 2
    /\ Len(revisions) = 2

====
